---- MODULE Spec2Model ----
(***************************************************************************)
(* A model of the uhyve file-system bridge of the kernel (src/fs/uhyve.rs): *)
(* the hypercall transport, the six wire structures, the shared and        *)
(* lock-guarded file handle, and the directory node.                       *)
(*                                                                         *)
(* Threads run on several cores.  A hypercall is one blocking port write:  *)
(* the calling thread is "inflight" from the port write until the host has *)
(* written its results into the request; the call then reads the result    *)
(* back and returns.                                                       *)
(*                                                                         *)
(* 64-bit quantities whose width matters (addresses, usize lengths) are    *)
(* tuples of four 16-bit limbs, most significant first.                    *)
(***************************************************************************)
EXTENDS Integers, Sequences, FiniteSets, TLC

VARIABLES handles, owns, pc, op, last, hostlog, panicked, held, mounts

vars == <<handles, owns, pc, op, last, hostlog, panicked, held, mounts>>

(* ------------------------------ bounds --------------------------------- *)

NThreads == 2
MaxHandles == 2
MaxRefs == 2

Threads == 1..NThreads
HandleIds == 1..MaxHandles

(* --------------------------- 64-bit values ----------------------------- *)

\* 2^15: a limb from here on has its top bit set.
HalfLimb == 32768

U64(n) == <<0, 0, 0, n>>

\* `x as u32`, seen again as a 64-bit value: the upper 32 bits are lost.
as_u32(x) == <<0, 0, x[3], x[4]>>

\* A cast in place of the checked conversion.
try_into_isize_cast(x) == [tag |-> "Some", val |-> x]

\* usize -> isize, `try_into()`: fails from 2^63 on.
try_into_isize(x) == IF x[1] < HalfLimb THEN [tag |-> "Some", val |-> x]
                                         ELSE [tag |-> "None", val |-> x]

(* ------------------------------ results -------------------------------- *)

Ok(v) == [tag |-> "Ok", val |-> v]
Err(e) == [tag |-> "Err", val |-> e]
Panic(w) == [tag |-> "Panic", val |-> w]
Some(v) == [tag |-> "Some", val |-> v]
None == [tag |-> "None", val |-> 0]

(* ------------------------------- ports --------------------------------- *)

UHYVE_PORT_WRITE == 1024
UHYVE_PORT_OPEN == 1088
UHYVE_PORT_CLOSE == 1152
UHYVE_PORT_READ == 1280
UHYVE_PORT_LSEEK == 1408
UHYVE_PORT_UNLINK == 2112

(* ------------------------- address translation ------------------------- *)

\* The virtual addresses the calls use: each thread's stack slot for the
\* request structure, each thread's heap allocation for the path string,
\* and the callers' I/O buffers.
StackAddr(t) == <<0, 0, 64 + t, 4096>>
HeapAddr(t) == <<0, 0, 128 + t, 256>>
BufAddrs == { <<0, 0, 193, 512>> }

\* The kernel's page table: the frame of a mapped page, some below 4 GiB
\* and some above; the offset in the page is kept.  It is not the identity.
Frame(v) == <<0, v[3] % 2, v[3] + 16, v[4]>>

\* paging::virtual_to_physical: Some(physical) for a mapped address.
virtual_to_physical(v) ==
    IF v[1] = 0 /\ v[2] = 0 THEN Some(Frame(v)) ELSE None

(* ----------------------------- error kinds ----------------------------- *)

\* IoError, the error-kind enumeration, with the code of each kind.
ENOENT == 2
EACCES == 13
EINVAL == 22
ENOSYS == 38
IoErrorCodes == {ENOENT, EACCES, EINVAL, ENOSYS}

\* A mapping that takes every code it does not know for "invalid argument".
from_i32_default(r) ==
    IF (0 - r) \in IoErrorCodes THEN Some(0 - r) ELSE Some(EINVAL)

\* num::FromPrimitive for IoError: the host's negated code to its kind.
from_i32(r) == IF (0 - r) \in IoErrorCodes THEN Some(0 - r) ELSE None

(* --------------------------- wire structures --------------------------- *)

Unwrap(o) == o.val

\* An Open request that carries the path's virtual address.
SysOpen_new_virtual(name, flags, mode) ==
    [name |-> name, flags |-> flags, mode |-> mode, ret |-> -1]

SysOpen_new(name, flags, mode) ==
    [name |-> Unwrap(virtual_to_physical(name)), flags |-> flags, mode |-> mode, ret |-> -1]

SysClose_new(fd) == [fd |-> fd, ret |-> -1]

SysRead_new(fd, buf, len) == [fd |-> fd, buf |-> buf, len |-> len, ret |-> -1]

SysWrite_new(fd, buf, len) == [fd |-> fd, buf |-> buf, len |-> len]

SysLseek_new(fd, offset, whence) == [fd |-> fd, offset |-> offset, whence |-> whence]

SysUnlink_new(name) == [name |-> Unwrap(virtual_to_physical(name)), ret |-> -1]

(* ------------------------------ transport ------------------------------ *)

Archs == {"x86_64", "aarch64"}

\* uhyve_send: the value the port receives for a request at virtual address
\* `data`, in the build for architecture `a`.  x86_64 writes with `outl`, a
\* 32-bit port write; aarch64 stores the whole register.
uhyve_send(a, data) ==
    LET physical_address == Unwrap(virtual_to_physical(data))
    IN IF a = "x86_64" THEN as_u32(physical_address) ELSE physical_address

\* Whether the translations a call makes all succeed (`.unwrap()`).
Mapped(v) == virtual_to_physical(v).tag = "Some"

(* ------------------------------- inputs -------------------------------- *)

\* Path components, each a sequence of characters.
Components == { <<>>, << <<"a">> >>, << <<"a">>, <<"b">> >> }
OpenFlags == {65}
Lens == {U64(0), U64(2)}
SeekOffsets == {5}
Whences == {0, 1, 2}
Modes == {493}

RECURSIVE Concat(_)
Concat(ss) == IF ss = <<>> THEN <<>> ELSE Head(ss) \o Concat(Tail(ss))

\* A join that puts the separator after each component.
JoinPath_trailing(components) ==
    Concat([i \in 1..Len(components) |-> components[i] \o <<"/">>])

\* components.iter().map(|v| "/".to_owned() + v).collect()
JoinPath(components) ==
    Concat([i \in 1..Len(components) |-> <<"/">> \o components[i]])

OpenPath(components) ==
    IF components = <<>> THEN <<"/", "NUL">> ELSE JoinPath(components)

UnlinkPath(components) ==
    IF components = <<>> THEN <<"/">> ELSE JoinPath(components)

(* ----------------------------- host answers ---------------------------- *)

\* What the host may write into the field each call reads back.
OpenRets == {-99, -2, 0, 3, 4}
CloseRets == {-9, 0}
ReadRets == {-99, -22, 0, 2}
WriteLens == {U64(1), <<HalfLimb, 0, 0, 0>>}
LseekRets == {-1, 0, 7}
UnlinkRets == {-99, -13, 0, 13}

\* The host executes request `o` and writes `v` into the field the call
\* reads back: `len` of a Write, `offset` of an Lseek, `ret` of the others.
HostWrite(o, v) ==
    CASE o.kind = "write" -> [o.req EXCEPT !.len = v]
      [] o.kind = "lseek" -> [o.req EXCEPT !.offset = v]
      [] OTHER -> [o.req EXCEPT !.ret = v]

(* -------------------------------- state -------------------------------- *)

\* handles[h]:  the shared handle h: its descriptor, the strong count of its
\*              Arc, the thread holding its guard (0: free), and whether it
\*              is "free" (never made), "live" or "closed" (destructor run).
\* owns[t][h]:  the references to h that thread t holds: the UhyveFileHandle
\*              that traverse_open returned, or clones of it, each one a
\*              strong reference of the handle's Arc.
\* pc[t], op[t]: where thread t is ("idle", "spin" waiting for a guard,
\*              "locked" holding one with its request not yet made,
\*              "inflight" in a hypercall, "panicked") and its call: the
\*              request, the caller's virtual address it is about and the
\*              length of the caller's buffer, the path components it
\*              was given and the path string made of them, the port
\*              written, the value the port received (in the build for
\*              each architecture, which nothing else depends on) and
\*              the number of port writes the call has made.
\* last:        what the step just taken returned to its caller, if it
\*              returned anything: the operation, its handle, the length
\*              it asked for, what the host wrote into its request, the
\*              result, and the number of port writes the call made.
\* hostlog[h]:  what the host has seen of handle h: the descriptor it gave
\*              in the Open that made h, and the descriptors of the Close
\*              requests it received from h's destructor, in order.
\* panicked:    the kernel has panicked; nothing runs any more.
\* held:        the threads that hold a guard, in the order in which they
\*              acquired it.
\* mounts:      the mount table of fs::FILESYSTEM: the mount points, in the
\*              order in which their nodes were registered.

NoOp == [kind |-> "none", h |-> 0, req |-> <<>>, va |-> <<>>, len |-> <<>>,
         components |-> <<>>, path |-> <<>>, port |-> 0, data |-> <<>>, sends |-> 0]
NoLast == [op |-> "none", h |-> 0, len |-> <<>>, host |-> 0, res |-> Ok(0),
           sends |-> 0]

\* The length a Read or Write request asks for.
AskedLen(o) == IF o.kind \in {"read", "write"} THEN o.req.len ELSE <<>>

FreeHandle == [state |-> "free", fd |-> 0, strong |-> 0, locked |-> 0]

Init ==
    /\ handles = [h \in HandleIds |-> FreeHandle]
    /\ owns = [t \in Threads |-> [h \in HandleIds |-> 0]]
    /\ pc = [t \in Threads |-> "idle"]
    /\ op = [t \in Threads |-> NoOp]
    /\ last = NoLast
    /\ hostlog = [h \in HandleIds |-> [opened |-> 0, closed |-> <<>>]]
    /\ panicked = FALSE
    /\ held = <<>>
    /\ mounts = <<>>

Idle(t) == ~panicked /\ pc[t] = "idle"
InFlight(t, kind) == ~panicked /\ pc[t] = "inflight" /\ op[t].kind = kind

FreeSlots == {h \in HandleIds : handles[h].state = "free"}
Opening == {t \in Threads : op[t].kind = "open"}

\* `.unwrap()` of None: the kernel panics.
PanicAt(t, name, r) ==
    /\ panicked' = TRUE
    /\ pc' = [pc EXCEPT ![t] = "panicked"]
    /\ last' = [op |-> name, h |-> op[t].h, len |-> AskedLen(op[t]), host |-> r,
                res |-> Panic("unwrap"), sends |-> op[t].sends]
    /\ UNCHANGED <<op, mounts>>

\* A call returns `res` to its caller.
Done(t, name, h, r, res) ==
    /\ pc' = [pc EXCEPT ![t] = "idle"]
    /\ op' = [op EXCEPT ![t] = NoOp]
    /\ last' = [op |-> name, h |-> h, len |-> AskedLen(op[t]), host |-> r, res |-> res,
                sends |-> op[t].sends]
    /\ UNCHANGED <<panicked, mounts>>

\* uhyve_send(port, &mut request) of thread t, whose request is on its stack:
\* the translation may fail (panic); otherwise the host receives the port
\* write and the thread blocks in the hypercall.
Send(t, port, o) ==
    IF Mapped(StackAddr(t))
    THEN /\ op' = [op EXCEPT ![t] = [o EXCEPT !.port = port,
                                              !.data = [a \in Archs |-> uhyve_send(a, StackAddr(t))],
                                              !.sends = @ + 1]]
         /\ pc' = [pc EXCEPT ![t] = "inflight"]
         /\ last' = NoLast
         /\ UNCHANGED <<panicked, mounts>>
    ELSE PanicAt(t, o.kind, 0)

(* --------------------------- directory node ---------------------------- *)

NotImplemented(t, name) ==
    /\ Idle(t)
    /\ last' = [NoLast EXCEPT !.op = name, !.res = Err(ENOSYS)]
    /\ UNCHANGED <<handles, owns, pc, op, hostlog, panicked, held, mounts>>

traverse_opendir(t, components) == NotImplemented(t, "opendir")

traverse_stat(t, components) == NotImplemented(t, "stat")

traverse_lstat(t, components) == NotImplemented(t, "lstat")

traverse_rmdir(t, components) == NotImplemented(t, "rmdir")

\* A mkdir that reports success.
traverse_mkdir_done(t, components, mode) ==
    /\ Idle(t)
    /\ last' = [NoLast EXCEPT !.op = "mkdir"]
    /\ UNCHANGED <<handles, owns, pc, op, hostlog, panicked, held, mounts>>

traverse_mkdir(t, components, mode) == NotImplemented(t, "mkdir")

\* traverse_open up to its port write.
traverse_open(t, components, opt) ==
    /\ Idle(t)
    /\ Cardinality(FreeSlots) > Cardinality(Opening)
    /\ IF Mapped(HeapAddr(t))
       THEN Send(t, UHYVE_PORT_OPEN,
                 [NoOp EXCEPT !.kind = "open", !.va = HeapAddr(t),
                              !.components = components,
                              !.path = OpenPath(components),
                              !.req = SysOpen_new(HeapAddr(t), opt, 0)])
       ELSE PanicAt(t, "open", 0)
    /\ UNCHANGED <<handles, owns, hostlog, held>>

\* UhyveFileHandle::new: a fresh shared, unlocked wrapper of the descriptor.
UhyveFileHandle_new(fd) == [state |-> "live", fd |-> fd, strong |-> 1, locked |-> 0]

\* Whether open takes the host's result for a descriptor.
IsDescriptor(r) == r > 0

\* traverse_open from the host's answer r on.
traverse_open_ret(t, r) ==
    /\ InFlight(t, "open")
    /\ LET sysopen == HostWrite(op[t], r)
       IN IF IsDescriptor(sysopen.ret)
          THEN LET h == CHOOSE x \in FreeSlots : \A y \in FreeSlots : x <= y
               IN /\ handles' = [handles EXCEPT ![h] = UhyveFileHandle_new(sysopen.ret)]
                  /\ owns' = [owns EXCEPT ![t][h] = 1]
                  /\ hostlog' = [hostlog EXCEPT ![h].opened = r]
                  /\ UNCHANGED held
                  /\ Done(t, "open", h, r, Ok(h))
          ELSE /\ IF from_i32(sysopen.ret).tag = "Some"
                  THEN Done(t, "open", 0, r, Err(Unwrap(from_i32(sysopen.ret))))
                  ELSE PanicAt(t, "open", r)
               /\ UNCHANGED <<handles, owns, hostlog, held>>

\* traverse_unlink up to its port write.
traverse_unlink(t, components) ==
    /\ Idle(t)
    /\ IF Mapped(HeapAddr(t))
       THEN Send(t, UHYVE_PORT_UNLINK,
                 [NoOp EXCEPT !.kind = "unlink", !.va = HeapAddr(t),
                              !.components = components,
                              !.path = UnlinkPath(components),
                              !.req = SysUnlink_new(HeapAddr(t))])
       ELSE PanicAt(t, "unlink", 0)
    /\ UNCHANGED <<handles, owns, hostlog, held>>

\* An unlink that tries once more when the host answers with an error.
traverse_unlink_ret_retry(t, r) ==
    /\ InFlight(t, "unlink")
    /\ IF r # 0 /\ op[t].sends < 2
       THEN /\ op' = [op EXCEPT ![t].sends = @ + 1]
            /\ last' = NoLast
            /\ UNCHANGED <<pc, panicked, mounts>>
       ELSE Done(t, "unlink", 0, r, IF r = 0 THEN Ok(0) ELSE Err(EINVAL))
    /\ UNCHANGED <<handles, owns, hostlog, held>>

\* traverse_unlink from the host's answer r on.
traverse_unlink_ret(t, r) ==
    /\ InFlight(t, "unlink")
    /\ LET sysunlink == HostWrite(op[t], r)
       IN IF sysunlink.ret = 0
          THEN Done(t, "unlink", 0, r, Ok(0))
          ELSE IF from_i32(sysunlink.ret).tag = "Some"
               THEN Done(t, "unlink", 0, r, Err(Unwrap(from_i32(sysunlink.ret))))
               ELSE PanicAt(t, "unlink", r)
    /\ UNCHANGED <<handles, owns, hostlog, held>>

(* ----------------------------- file handle ----------------------------- *)

\* A lock that lets everyone in.
CanLock_unguarded(h) == TRUE

\* SpinMutex::lock succeeds only on a free guard.
CanLock(h) == handles[h].locked = 0

\* `self.0.lock()`: a call on a handle starts by wanting the handle's guard.
Want(t, h, kind) ==
    /\ Idle(t)
    /\ owns[t][h] > 0
    /\ op' = [op EXCEPT ![t] = [NoOp EXCEPT !.kind = kind, !.h = h]]
    /\ pc' = [pc EXCEPT ![t] = "spin"]
    /\ last' = NoLast
    /\ UNCHANGED <<handles, owns, hostlog, panicked, held, mounts>>

\* ObjectInterface::read / write / lseek of UhyveFileHandle.
read(t, h) == Want(t, h, "read")

write(t, h) == Want(t, h, "write")

lseek(t, h) == Want(t, h, "lseek")

\* SpinMutex::lock returns: the spinning thread has the guard.
lock(t) ==
    /\ ~panicked
    /\ pc[t] = "spin"
    /\ CanLock(op[t].h)
    /\ handles' = [handles EXCEPT ![op[t].h].locked = t]
    /\ held' = Append(held, t)
    /\ pc' = [pc EXCEPT ![t] = "locked"]
    /\ last' = NoLast
    /\ UNCHANGED <<owns, op, hostlog, panicked, mounts>>

\* With the guard held: the request is built and the port written.
Locked(t, kind, port, va, len, req) ==
    /\ ~panicked
    /\ pc[t] = "locked"
    /\ op[t].kind = kind
    /\ Send(t, port, [op[t] EXCEPT !.va = va, !.len = len, !.req = req])
    /\ UNCHANGED <<handles, owns, hostlog, held>>

\* The holders of guards without thread t.
Release(q, t) == SelectSeq(q, LAMBDA u : u # t)

\* A read that answers a request for no bytes itself, with no hypercall.
Inner_read_shortcut(t, buf, len) ==
    IF len = U64(0)
    THEN /\ ~panicked
         /\ pc[t] = "locked"
         /\ op[t].kind = "read"
         /\ handles' = [handles EXCEPT ![op[t].h].locked = 0]
         /\ held' = Release(held, t)
         /\ pc' = [pc EXCEPT ![t] = "idle"]
         /\ op' = [op EXCEPT ![t] = NoOp]
         /\ last' = [op |-> "read", h |-> op[t].h, len |-> len, host |-> 0,
                     res |-> Ok(0), sends |-> 0]
         /\ UNCHANGED <<owns, hostlog, panicked, mounts>>
    ELSE Locked(t, "read", UHYVE_PORT_READ, buf, len,
                SysRead_new(handles[op[t].h].fd, buf, len))

\* UhyveFileHandleInner::read up to its port write.
Inner_read(t, buf, len) ==
    Locked(t, "read", UHYVE_PORT_READ, buf, len,
           SysRead_new(handles[op[t].h].fd, buf, len))

\* UhyveFileHandleInner::write up to its port write.
Inner_write(t, buf, len) ==
    Locked(t, "write", UHYVE_PORT_WRITE, buf, len,
           SysWrite_new(handles[op[t].h].fd, buf, len))

\* UhyveFileHandleInner::lseek up to its port write.
Inner_lseek(t, offset, whence) ==
    Locked(t, "lseek", UHYVE_PORT_LSEEK, <<>>, <<>>,
           SysLseek_new(handles[op[t].h].fd, offset, whence))

\* A call on a handle returns `res`; its guard is released.
Returned(t, kind, r, res) ==
    /\ handles' = [handles EXCEPT ![op[t].h].locked = 0]
    /\ held' = Release(held, t)
    /\ Done(t, kind, op[t].h, r, res)
    /\ UNCHANGED <<owns, hostlog>>

Unwound(t, kind, r) ==
    /\ PanicAt(t, kind, r)
    /\ UNCHANGED <<handles, owns, hostlog, held>>

\* UhyveFileHandleInner::read from the host's answer r on.
read_ret(t, r) ==
    /\ InFlight(t, "read")
    /\ LET sysread == HostWrite(op[t], r)
       IN IF sysread.ret >= 0
          THEN Returned(t, "read", r, Ok(sysread.ret))
          ELSE IF from_i32(sysread.ret).tag = "Some"
               THEN Returned(t, "read", r, Err(Unwrap(from_i32(sysread.ret))))
               ELSE Unwound(t, "read", r)

\* What the host may leave in the len field of thread t's Write: the
\* requested length untouched, or a count of its own.
HostLens(t) ==
    IF pc[t] = "inflight" /\ op[t].kind = "write"
    THEN WriteLens \cup {op[t].req.len} ELSE {}

\* What write returns for the request as the host left it.
WriteCount(syswrite) == try_into_isize(syswrite.len)

\* UhyveFileHandleInner::write from the host's answer on: the host has left
\* n in the request's len field.
write_ret(t, n) ==
    /\ InFlight(t, "write")
    /\ LET syswrite == HostWrite(op[t], n)
       IN IF WriteCount(syswrite).tag = "Some"
          THEN Returned(t, "write", n, Ok(Unwrap(WriteCount(syswrite))))
          ELSE Unwound(t, "write", n)

\* A seek that answers with the offset it asked for.
lseek_ret_local(t, r) ==
    /\ InFlight(t, "lseek")
    /\ Returned(t, "lseek", r, Ok(op[t].req.offset))

\* UhyveFileHandleInner::lseek from the host's answer on: the host has left
\* r in the request's offset field.
lseek_ret(t, r) ==
    /\ InFlight(t, "lseek")
    /\ LET syslseek == HostWrite(op[t], r)
       IN IF syslseek.offset >= 0
          THEN Returned(t, "lseek", r, Ok(syslseek.offset))
          ELSE Returned(t, "lseek", r, Err(EINVAL))

\* A clone that is not counted.
ArcClone_uncounted(n) == n

\* Arc::clone: one more strong reference.
ArcClone(n) == n + 1

\* Clone for UhyveFileHandle: owner t makes a reference and hands it to u.
Clone(t, u, h) ==
    /\ Idle(t)
    /\ owns[t][h] > 0
    /\ handles[h].strong < MaxRefs
    /\ handles' = [handles EXCEPT ![h].strong = ArcClone(@)]
    /\ owns' = [owns EXCEPT ![u][h] = @ + 1]
    /\ last' = NoLast
    /\ UNCHANGED <<pc, op, hostlog, panicked, held, mounts>>

\* A destructor run at every release, and one run at none.
IsLast_always(h) == TRUE
IsLast_never(h) == FALSE

\* Arc::drop runs the inner value's destructor for the last reference only.
IsLast(h) == handles[h].strong = 1

\* An owner releases a reference; the last release runs
\* Drop for UhyveFileHandleInner, up to its port write.
Drop(t, h) ==
    /\ Idle(t)
    /\ owns[t][h] > 0
    /\ owns' = [owns EXCEPT ![t][h] = @ - 1]
    /\ UNCHANGED held
    /\ IF IsLast(h)
       THEN LET sysclose == SysClose_new(handles[h].fd)
            IN /\ handles' = [handles EXCEPT ![h].strong = @ - 1, ![h].state = "closed"]
               /\ Send(t, UHYVE_PORT_CLOSE,
                       [NoOp EXCEPT !.kind = "close", !.h = h, !.req = sysclose])
               /\ hostlog' = IF Mapped(StackAddr(t))
                             THEN [hostlog EXCEPT ![h].closed = Append(@, sysclose.fd)]
                             ELSE hostlog
       ELSE /\ handles' = [handles EXCEPT ![h].strong = @ - 1]
            /\ last' = [NoLast EXCEPT !.op = "drop", !.h = h]
            /\ UNCHANGED <<pc, op, hostlog, panicked, mounts>>

\* Drop for UhyveFileHandleInner from the host's answer r on: the result is
\* discarded.
drop_ret(t, r) ==
    /\ InFlight(t, "close")
    /\ Done(t, "close", op[t].h, r, Ok(0))
    /\ UNCHANGED <<handles, owns, hostlog, held>>

(* --------------------------- mount initializer ------------------------- *)

\* "/host"
MountPoint == <<"/", "h", "o", "s", "t">>

\* The nodes registered at `path`.
NodesAt(table, path) == {i \in 1..Len(table) : table[i] = path}

\* A mount that registers a second node at a mount point already taken.
mount_again(table, path) == Ok(Append(table, path))

\* Filesystem::mount: registers the node at `path`, and is rejected with an
\* error if a node is mounted there already.
mount(table, path) ==
    IF NodesAt(table, path) # {} THEN Err(EINVAL) ELSE Ok(Append(table, path))

\* init, called by thread t; `uhyve` is the answer of is_uhyve().  The
\* `.expect()` of a rejected mount panics.
init(t, uhyve) ==
    /\ Idle(t)
    /\ IF uhyve
       THEN LET mounted == mount(mounts, MountPoint)
            IN IF mounted.tag = "Ok"
               THEN /\ mounts' = mounted.val
                    /\ last' = [NoLast EXCEPT !.op = "init", !.host = uhyve]
                    /\ UNCHANGED <<pc, op, panicked>>
               ELSE /\ panicked' = TRUE
                    /\ pc' = [pc EXCEPT ![t] = "panicked"]
                    /\ last' = [NoLast EXCEPT !.op = "init", !.host = uhyve,
                                              !.res = Panic("expect")]
                    /\ UNCHANGED <<op, mounts>>
       ELSE /\ last' = [NoLast EXCEPT !.op = "init", !.host = uhyve]
            /\ UNCHANGED <<pc, op, panicked, mounts>>
    /\ UNCHANGED <<handles, owns, hostlog, held>>

(* ---------------------------- specification ---------------------------- *)

Next ==
    \/ \E t \in Threads, uhyve \in BOOLEAN : init(t, uhyve)
    \/ \E t \in Threads, c \in Components : traverse_opendir(t, c)
    \/ \E t \in Threads, c \in Components : traverse_stat(t, c)
    \/ \E t \in Threads, c \in Components : traverse_lstat(t, c)
    \/ \E t \in Threads, c \in Components : traverse_rmdir(t, c)
    \/ \E t \in Threads, c \in Components, m \in Modes : traverse_mkdir(t, c, m)
    \/ \E t \in Threads, c \in Components, o \in OpenFlags : traverse_open(t, c, o)
    \/ \E t \in Threads, r \in OpenRets : traverse_open_ret(t, r)
    \/ \E t \in Threads, c \in Components : traverse_unlink(t, c)
    \/ \E t \in Threads, r \in UnlinkRets : traverse_unlink_ret(t, r)
    \/ \E t \in Threads, h \in HandleIds : read(t, h)
    \/ \E t \in Threads, h \in HandleIds : write(t, h)
    \/ \E t \in Threads, h \in HandleIds : lseek(t, h)
    \/ \E t \in Threads : lock(t)
    \/ \E t \in Threads, b \in BufAddrs, n \in Lens : Inner_read(t, b, n)
    \/ \E t \in Threads, b \in BufAddrs, n \in Lens : Inner_write(t, b, n)
    \/ \E t \in Threads, o \in SeekOffsets, w \in Whences : Inner_lseek(t, o, w)
    \/ \E t \in Threads, r \in ReadRets : read_ret(t, r)
    \/ \E t \in Threads : \E n \in HostLens(t) : write_ret(t, n)
    \/ \E t \in Threads, r \in LseekRets : lseek_ret(t, r)
    \/ \E t, u \in Threads, h \in HandleIds : Clone(t, u, h)
    \/ \E t \in Threads, h \in HandleIds : Drop(t, h)
    \/ \E t \in Threads, r \in CloseRets : drop_ret(t, r)

Spec == Init /\ [][Next]_vars


\* The host answers every hypercall: the call in flight returns.
HostAnswers(t) ==
    \/ \E r \in OpenRets : traverse_open_ret(t, r)
    \/ \E r \in UnlinkRets : traverse_unlink_ret(t, r)
    \/ \E r \in ReadRets : read_ret(t, r)
    \/ \E n \in HostLens(t) : write_ret(t, n)
    \/ \E r \in LseekRets : lseek_ret(t, r)
    \/ \E r \in CloseRets : drop_ret(t, r)

\* The life of the handles alone: the calls that make, use, share and release
\* them, under a host that answers every hypercall.
HandleNext ==
    \/ \E t \in Threads, c \in Components, o \in OpenFlags : traverse_open(t, c, o)
    \/ \E t \in Threads, r \in OpenRets : traverse_open_ret(t, r)
    \/ \E t \in Threads, h \in HandleIds : read(t, h)
    \/ \E t \in Threads, h \in HandleIds : write(t, h)
    \/ \E t \in Threads, h \in HandleIds : lseek(t, h)
    \/ \E t \in Threads : lock(t)
    \/ \E t \in Threads, b \in BufAddrs, n \in Lens : Inner_read(t, b, n)
    \/ \E t \in Threads, b \in BufAddrs, n \in Lens : Inner_write(t, b, n)
    \/ \E t \in Threads, o \in SeekOffsets, w \in Whences : Inner_lseek(t, o, w)
    \/ \E t \in Threads, r \in ReadRets : read_ret(t, r)
    \/ \E t \in Threads : \E n \in HostLens(t) : write_ret(t, n)
    \/ \E t \in Threads, r \in LseekRets : lseek_ret(t, r)
    \/ \E t, u \in Threads, h \in HandleIds : Clone(t, u, h)
    \/ \E t \in Threads, h \in HandleIds : Drop(t, h)
    \/ \E t \in Threads, r \in CloseRets : drop_ret(t, r)

FairSpec ==
    Init /\ [][HandleNext]_vars /\ \A t \in Threads : WF_vars(HostAnswers(t))

\* A thread that holds a guard goes on to make its hypercall.
Requests(t) ==
    \/ \E b \in BufAddrs, n \in Lens : Inner_read(t, b, n)
    \/ \E b \in BufAddrs, n \in Lens : Inner_write(t, b, n)
    \/ \E o \in SeekOffsets, w \in Whences : Inner_lseek(t, o, w)

\* The handles under fair scheduling and a host that answers: a thread that
\* can run does, and a thread spinning on a guard that is free again and
\* again gets it.
ProgressSpec ==
    /\ Init /\ [][HandleNext]_vars
    /\ \A t \in Threads :
         WF_vars(HostAnswers(t)) /\ WF_vars(Requests(t)) /\ SF_vars(lock(t))

(* ------------------------------ properties ----------------------------- *)

Owners(h) == {t \in Threads : owns[t][h] > 0}
Opened(h) == hostlog[h].opened > 0
Closes(h) == hostlog[h].closed
HandleCalls == {"read", "write", "lseek"}
Calling(t, h) == pc[t] \in {"spin", "locked", "inflight"} /\ op[t].h = h /\ op[t].kind \in HandleCalls

\* C1: a handle made by a successful Open gets at most one Close hypercall,
\* whatever its owners do, and that Close carries the descriptor the Open
\* returned.
C1_NoDoubleClose ==
    \A h \in HandleIds :
        /\ Len(Closes(h)) <= 1
        /\ \A i \in 1..Len(Closes(h)) : Opened(h) /\ Closes(h)[i] = hostlog[h].opened

\* A handle that was shared has been closed, and the other handle is open.
C1_Witness ==
    \E h, g \in HandleIds :
        /\ Closes(h) = <<hostlog[h].opened>>
        /\ last.op = "close" /\ last.h = h
        /\ Opened(g) /\ Closes(g) = <<>> /\ handles[g].strong = MaxRefs

\* C2: while any reference to a handle is live no Close has been issued for
\* it, and no Read, Write or Lseek of the handle is wanted or in flight once
\* its Close has been issued; a handle is never live again after its Close.
C2_CloseOnlyAfterLastRelease ==
    \A h \in HandleIds :
        /\ Owners(h) # {} => Closes(h) = <<>>
        /\ \A t \in Threads : Calling(t, h) => Closes(h) = <<>>
        /\ Closes(h) # <<>> => handles[h].state = "closed" /\ handles[h].strong = 0

\* One of two references has just been released while the other owner is in
\* a hypercall of the handle.
C2_Witness ==
    /\ last.op = "drop"
    /\ \E t \in Threads :
         /\ pc[t] = "inflight" /\ Calling(t, last.h)
         /\ owns[t][last.h] = 1
         /\ Closes(last.h) = <<>>

\* C3: once every owner of a handle made by a successful Open has released
\* its reference, a Close hypercall for the handle is issued.
C3_NoLeak ==
    \A h \in HandleIds :
        (Opened(h) /\ Owners(h) = {}) ~> (Closes(h) # <<>>)

\* Every owner of a handle has released it and its Close is in flight.
C3_Witness ==
    \E h \in HandleIds :
        /\ Opened(h) /\ Owners(h) = {} /\ Closes(h) # <<>>
        /\ \E t \in Threads : pc[t] = "inflight" /\ op[t].kind = "close" /\ op[t].h = h
        /\ last.op = "none"

\* C4: at most one hypercall of a handle is in flight at any instant, and the
\* thread in it holds the handle's guard; whoever else wants the handle waits.
C4_MutualExclusion ==
    \A h \in HandleIds :
        /\ Cardinality({t \in Threads : pc[t] = "inflight" /\ op[t].h = h}) <= 1
        /\ \A t \in Threads :
             pc[t] = "inflight" /\ Calling(t, h) => handles[h].locked = t

\* One owner is in a hypercall of the handle while another waits for its guard.
C4_Witness ==
    \E h \in HandleIds, t, u \in Threads :
        /\ pc[t] = "inflight" /\ Calling(t, h)
        /\ pc[u] = "spin" /\ Calling(u, h)


PathCalls == {"open", "unlink"}
BufferCalls == {"read", "write"}
Translated(v) == Unwrap(virtual_to_physical(v))

C6_OpenResult ==
    last.op = "open" =>
        IF last.host > 0
        THEN /\ last.res = Ok(last.h)
             /\ last.h \in HandleIds
             /\ handles[last.h] = [state |-> "live", fd |-> last.host,
                                   strong |-> 1, locked |-> 0]
             /\ Closes(last.h) = <<>>
        ELSE /\ last.res.tag = "Err"
             /\ last.h = 0
             /\ last.host = -2 => last.res = Err(ENOENT)

\* C7 as claimed: for every result r of the host, unlink returns success if
\* r = 0 and a typed error if r is not 0; r = -13 gives "permission denied".
C7_UnlinkResult ==
    last.op = "unlink" =>
        /\ last.host = 0 => last.res = Ok(0)
        /\ last.host # 0 => last.res.tag = "Err"
        /\ last.host = -13 => last.res = Err(EACCES)

\* C8 as claimed: write returns success with the requested length, whatever
\* the host writes into the request.
C8_WriteReturnsRequestedLen ==
    last.op = "write" => last.res = Ok(last.len)

\* C8 as amended: write never returns an error; what it returns is the
\* length field of the request as the host left it, which is the requested
\* length when the host left it alone; a value from 2^63 on panics instead.
C8_WriteReturnsLenField ==
    last.op = "write" =>
        /\ last.res.tag # "Err"
        /\ last.res.tag = "Ok" <=> last.host[1] < HalfLimb
        /\ last.res.tag = "Ok" => last.res.val = last.host
        /\ last.host = last.len => last.res = Ok(last.len)

\* A write has returned a count of the host's that is not the requested one.
C8_Witness ==
    last.op = "write" /\ last.host # last.len /\ last.res = Ok(last.host)

\* C9 as claimed: on every architecture the port receives the translation of
\* the request's address, all 64 bits of it.
C9_PortValue ==
    \A t \in Threads, a \in Archs :
        pc[t] = "inflight" => op[t].data[a] = Translated(StackAddr(t))

UnsupportedOps == {"opendir", "stat", "lstat", "mkdir", "rmdir"}

\* C10: opendir, stat, lstat, mkdir and rmdir return "not implemented" for
\* every input in every state, and no hypercall starts: no thread moves, no
\* request is made, the host sees nothing and no handle changes.
C10_Unsupported ==
    [][last'.op \in UnsupportedOps =>
          /\ last'.res = Err(ENOSYS)
          /\ pc' = pc /\ op' = op /\ hostlog' = hostlog
          /\ handles' = handles /\ owns' = owns]_vars

\* mkdir has returned "not implemented" while a hypercall of another thread
\* is in flight.
C10_Witness ==
    /\ last.op = "mkdir" /\ last.res = Err(ENOSYS)
    /\ \E t \in Threads : pc[t] = "inflight"

\* The path of a component sequence: "/" c1 "/" c2 ... "/" cn, and "/" for
\* the empty sequence.
RECURSIVE RootedPath(_)
RootedPath(components) ==
    IF components = <<>> THEN <<"/">>
    ELSE IF Len(components) = 1 THEN <<"/">> \o components[1]
    ELSE <<"/">> \o components[1] \o RootedPath(Tail(components))

\* The path a string spells: its characters up to its terminator.
RECURSIVE PathText(_)
PathText(path) ==
    IF path = <<>> \/ Head(path) = "NUL" THEN <<>>
    ELSE <<Head(path)>> \o PathText(Tail(path))

Terminated(path) == \E i \in 1..Len(path) : path[i] = "NUL"

\* C12 as claimed: the path string whose address an Open or Unlink request
\* carries holds a NUL terminator, for every component sequence.
C12_PathTerminated ==
    \A t \in Threads :
        pc[t] = "inflight" /\ op[t].kind \in PathCalls => Terminated(op[t].path)

\* The descriptor a handle wraps is the one its Open returned.
SameDescriptor(h) == handles[h].fd = hostlog[h].opened

\* C13 as claimed: for every result r of the host, read returns r as the
\* byte count if r >= 0 and the typed error of code -r if r < 0; the
\* handle's descriptor is what it was.
C13_ReadResult ==
    last.op = "read" =>
        /\ last.host >= 0 => last.res = Ok(last.host)
        /\ last.host < 0 => last.res = Err(0 - last.host)
        /\ SameDescriptor(last.h)

ZeroLengthCalls == {"read", "write"}

\* Zero-length I/O is forwarded: a read or write of a buffer of length 0 is
\* in its one hypercall with a length field of 0, and has made exactly one
\* hypercall when it returns.
ZeroLengthForwarded ==
    /\ \A t \in Threads :
         pc[t] = "inflight" /\ op[t].kind \in ZeroLengthCalls /\ op[t].len = U64(0) =>
             op[t].req.len = U64(0) /\ op[t].sends = 1
    /\ last.op \in ZeroLengthCalls /\ last.len = U64(0) => last.sends = 1

C15_SeekResult ==
    /\ last.op = "lseek" =>
         last.res = IF last.host >= 0 THEN Ok(last.host) ELSE Err(EINVAL)
    /\ last.op \in HandleCalls /\ last.res.tag # "Panic" =>
         SameDescriptor(last.h) /\ handles[last.h].state = "live"

\* A seek has returned the host's offset, which is not the one it asked
\* for, while another owner waits for the handle.
C15_Witness ==
    /\ last.op = "lseek" /\ last.res = Ok(7)
    /\ \E u \in Threads : pc[u] = "spin" /\ Calling(u, last.h)

CodedCalls == {"open", "read", "unlink"}

\* Whether r stands where the call reads an error code.
ErrorPosition(call, r) ==
    CASE call = "open" -> r <= 0
      [] call = "read" -> r < 0
      [] call = "unlink" -> r # 0

C17_MountOnce ==
    [][/\ Cardinality(NodesAt(mounts', MountPoint)) <= 1
       /\ mounts' # mounts =>
            /\ last'.op = "init" /\ last'.host = TRUE
            /\ NodesAt(mounts, MountPoint) = {}
            /\ mounts' = Append(mounts, MountPoint)
       /\ last'.op = "init" /\ last'.host = TRUE /\ NodesAt(mounts, MountPoint) # {} =>
            /\ mounts' = mounts
            /\ panicked' /\ last'.res.tag = "Panic"
       /\ last'.op = "init" /\ last'.host = TRUE /\ NodesAt(mounts, MountPoint) = {} =>
            /\ NodesAt(mounts', MountPoint) # {}
            /\ panicked' = panicked /\ last'.res.tag = "Ok"
       /\ last'.op = "init" /\ last'.host = FALSE =>
            /\ mounts' = mounts
            /\ panicked' = panicked /\ last'.res.tag = "Ok"]_vars

\* A second init under the hypervisor has found "/host" mounted and panicked.
C17_Witness ==
    /\ last.op = "init" /\ last.host = TRUE /\ last.res.tag = "Panic"
    /\ mounts = <<MountPoint>>

\* The position of thread t among the holders of guards (0: not one).
HeldAt(t) == IF \E i \in 1..Len(held) : held[i] = t
             THEN CHOOSE i \in 1..Len(held) : held[i] = t ELSE 0

\* Thread t's Read, Write or Lseek hypercall reaches the host in this step.
Observed(t) == pc[t] = "locked" /\ pc'[t] = "inflight"

\* C18: the host observes the hypercalls of a handle in the order in which
\* their threads acquired the handle's guard: when a hypercall of a handle
\* reaches the host, its thread holds the guard, and no thread that acquired
\* the guard of the same handle before it has its hypercall still to come.
C18_HandleOrder ==
    [][\A t \in Threads :
          Observed(t) =>
              /\ HeldAt(t) > 0
              /\ \A i \in 1..Len(held) :
                   i < HeldAt(t) /\ op[held[i]].h = op[t].h => pc[held[i]] # "locked"]_vars

\* Two handles: the thread that acquired its guard second has its hypercall
\* at the host while the hypercall of the first is still to come.
C18_Witness ==
    \E t, u \in Threads :
        /\ held = <<t, u>> /\ op[t].h # op[u].h
        /\ pc[t] = "locked" /\ pc[u] = "inflight"

Ports == <<UHYVE_PORT_WRITE, UHYVE_PORT_OPEN, UHYVE_PORT_CLOSE, UHYVE_PORT_READ,
           UHYVE_PORT_LSEEK, UHYVE_PORT_UNLINK>>

\* The port reserved for each kind of hypercall.
PortOf(kind) ==
    CASE kind = "write" -> UHYVE_PORT_WRITE
      [] kind = "open" -> UHYVE_PORT_OPEN
      [] kind = "close" -> UHYVE_PORT_CLOSE
      [] kind = "read" -> UHYVE_PORT_READ
      [] kind = "lseek" -> UHYVE_PORT_LSEEK
      [] kind = "unlink" -> UHYVE_PORT_UNLINK

HypercallOps == {"open", "unlink", "read", "write", "lseek", "close"}

\* C19: the six ports are pairwise distinct; a call in a hypercall has made
\* one port write, on the port of its kind, and a call waiting for a guard
\* none; an open, unlink, read, write, seek or last-reference drop that has
\* ended made exactly one port write, whether the host answered with an
\* error or not; a drop that was not the last made none.
C19_OneHypercall ==
    /\ \A i, j \in 1..Len(Ports) : i # j => Ports[i] # Ports[j]
    /\ \A t \in Threads :
         /\ pc[t] = "inflight" => op[t].sends = 1 /\ op[t].port = PortOf(op[t].kind)
         /\ pc[t] \in {"idle", "spin", "locked"} => op[t].sends = 0
    /\ last.op \in HypercallOps => last.sends = 1
    /\ last.op = "drop" => last.sends = 0

\* An unlink has returned the host's error after its one hypercall.
C19_Witness ==
    /\ last.op = "unlink" /\ last.host = -13 /\ last.res = Err(EACCES)
    /\ last.sends = 1

\* C20 as claimed: a read, write or seek that has returned has released its
\* guard, and every thread waiting for a guard acquires it and completes
\* its call.
C20_Progress ==
    /\ [](last.op \in HandleCalls /\ last.res.tag # "Panic" =>
             handles[last.h].locked = 0)
    /\ \A t \in Threads : (pc[t] = "spin") ~> (pc[t] = "idle")

====
